---- MODULE Spec2Model ----
(***************************************************************************)
(* Contact-submission pipeline of the portfolio site:                      *)
(*   - the submit-contact edge function (rate limit, validation, insert),  *)
(*   - the ContactSection form (handleSubmit, isSubmitting, toasts).       *)
(* Text values are sequences of one-character strings so that trim,        *)
(* toLowerCase, length and the e-mail pattern are computed, not assumed.   *)
(***************************************************************************)
EXTENDS Integers, Sequences, FiniteSets, TLC

\* ------------------------------------------------------------------------
\* Bounds of the model
\* ------------------------------------------------------------------------
MaxInFlight == 2

MaxTicks == 1

MaxStored == 1

MaxPending == 2

\* ------------------------------------------------------------------------
\* Program constants
\* ------------------------------------------------------------------------
RATE_LIMIT_WINDOW_MS == 3600000

MAX_SUBMISSIONS_PER_WINDOW == 5

NameMinLen == 2

NameMaxLen == 100

EmailMaxLen == 255

MessageMinLen == 10

MessageMaxLen == 5000

\* ------------------------------------------------------------------------
\* Characters and text
\* ------------------------------------------------------------------------
UpperLetters == <<"A","B","C","D","E","F","G","H","I","J","K","L","M",
                  "N","O","P","Q","R","S","T","U","V","W","X","Y","Z">>

LowerLetters == <<"a","b","c","d","e","f","g","h","i","j","k","l","m",
                  "n","o","p","q","r","s","t","u","v","w","x","y","z">>

Digits == {"0","1","2","3","4","5","6","7","8","9"}

Letters == {UpperLetters[i] : i \in 1..26} \cup {LowerLetters[i] : i \in 1..26}

Whitespace == {" ", "\t", "\n", "\r"}

\* n copies of the character c
Rep(c, n) == SubSeq([i \in 1..n |-> c], 1, n)

SetMin(S) == CHOOSE x \in S : \A y \in S : x <= y

\* String.prototype.trim: the text between the first and the last
\* non-whitespace character, empty when there is none.
trim(s) ==
    LET n == Len(s) IN
    IF \A i \in 1..n : s[i] \in Whitespace THEN << >>
    ELSE LET first == CHOOSE i \in 1..n :
                        s[i] \notin Whitespace /\ \A k \in 1..(i - 1) : s[k] \in Whitespace
             final == CHOOSE i \in 1..n :
                        s[i] \notin Whitespace /\ \A k \in (i + 1)..n : s[k] \in Whitespace
         IN  SubSeq(s, first, final)

LowerOf(c) ==
    IF \E i \in 1..26 : UpperLetters[i] = c
    THEN LowerLetters[CHOOSE i \in 1..26 : UpperLetters[i] = c]
    ELSE c

\* String.prototype.toLowerCase
toLowerCase(s) == [i \in 1..Len(s) |-> LowerOf(s[i])]

LocalChars == Letters \cup Digits \cup {".", "_", "%", "+", "-"}

DomainChars == Letters \cup Digits \cup {".", "-"}

\* /^[A-Za-z0-9._%+-]+@[A-Za-z0-9.-]+\.[A-Za-z]{2,}$/ .test(s)
emailRegex(s) ==
    \E i \in {k \in 1..Len(s) : s[k] = "@"} :
      \E j \in {k \in (i + 1)..Len(s) : s[k] = "."} :
        /\ i > 1
        /\ \A k \in 1..(i - 1) : s[k] \in LocalChars
        /\ j > i + 1
        /\ \A k \in (i + 1)..(j - 1) : s[k] \in DomainChars
        /\ Len(s) - j >= 2
        /\ \A k \in (j + 1)..Len(s) : s[k] \in Letters

\* ------------------------------------------------------------------------
\* JSON values carried by a request body
\* ------------------------------------------------------------------------
Str(s) == [t |-> "string", v |-> s]

Undefined == [t |-> "undefined"]

Null == [t |-> "null"]

Num == [t |-> "number", n |-> 42]

IsStr(x) == x.t = "string"

IsNullish(x) == x.t \in {"undefined", "null"}

\* x?.trim(): undefined for a nullish value, the trimmed text for a string,
\* and a TypeError (trim is not a function) for any other JSON type.
ResultOk(tr) == [outcome |-> "valid", error |-> "", trimmed |-> tr]

ResultInvalid(msg, tr) == [outcome |-> "invalid", error |-> msg, trimmed |-> tr]

ResultThrow == [outcome |-> "throw", error |-> "TypeError", trimmed |-> Undefined]

\* validateName without the upper bound.
validateNameNoMax(name) ==
    IF IsNullish(name) THEN ResultInvalid("Name is required", Undefined)
    ELSE IF ~IsStr(name) THEN ResultThrow
    ELSE LET trimmed == trim(name.v) IN
         IF Len(trimmed) = 0 THEN ResultInvalid("Name is required", Str(trimmed))
         ELSE IF Len(trimmed) < NameMinLen
              THEN ResultInvalid("Name must be at least 2 characters", Str(trimmed))
         ELSE ResultOk(Str(trimmed))

validateName(name) ==
    IF IsNullish(name) THEN ResultInvalid("Name is required", Undefined)
    ELSE IF ~IsStr(name) THEN ResultThrow
    ELSE LET trimmed == trim(name.v) IN
         IF Len(trimmed) = 0 THEN ResultInvalid("Name is required", Str(trimmed))
         ELSE IF Len(trimmed) < NameMinLen
              THEN ResultInvalid("Name must be at least 2 characters", Str(trimmed))
         ELSE IF Len(trimmed) > NameMaxLen
              THEN ResultInvalid("Name must be less than 100 characters", Str(trimmed))
         ELSE ResultOk(Str(trimmed))

validateEmail(email) ==
    IF IsNullish(email) THEN ResultInvalid("Email is required", Undefined)
    ELSE IF ~IsStr(email) THEN ResultThrow
    ELSE LET trimmed == toLowerCase(trim(email.v)) IN
         IF Len(trimmed) = 0 THEN ResultInvalid("Email is required", Str(trimmed))
         ELSE IF Len(trimmed) > EmailMaxLen
              THEN ResultInvalid("Email must be less than 255 characters", Str(trimmed))
         ELSE IF ~emailRegex(trimmed)
              THEN ResultInvalid("Please enter a valid email address", Str(trimmed))
         ELSE ResultOk(Str(trimmed))

\* validateMessage with the lower bound compared by <= : a message of
\* exactly 10 characters is refused.
validateMessageStrictMin(message) ==
    IF IsNullish(message) THEN ResultInvalid("Message is required", Undefined)
    ELSE IF ~IsStr(message) THEN ResultThrow
    ELSE LET trimmed == trim(message.v) IN
         IF Len(trimmed) = 0 THEN ResultInvalid("Message is required", Str(trimmed))
         ELSE IF Len(trimmed) <= MessageMinLen
              THEN ResultInvalid("Message must be at least 10 characters", Str(trimmed))
         ELSE IF Len(trimmed) > MessageMaxLen
              THEN ResultInvalid("Message must be less than 5000 characters", Str(trimmed))
         ELSE ResultOk(Str(trimmed))

validateMessage(message) ==
    IF IsNullish(message) THEN ResultInvalid("Message is required", Undefined)
    ELSE IF ~IsStr(message) THEN ResultThrow
    ELSE LET trimmed == trim(message.v) IN
         IF Len(trimmed) = 0 THEN ResultInvalid("Message is required", Str(trimmed))
         ELSE IF Len(trimmed) < MessageMinLen
              THEN ResultInvalid("Message must be at least 10 characters", Str(trimmed))
         ELSE IF Len(trimmed) > MessageMaxLen
              THEN ResultInvalid("Message must be less than 5000 characters", Str(trimmed))
         ELSE ResultOk(Str(trimmed))

\* ------------------------------------------------------------------------
\* Rate limiting
\* ------------------------------------------------------------------------
\* isRateLimited with the limit compared by > : a sixth submission passes.
isRateLimitedOffByOne(store, ip, t) ==
    IF ip \notin DOMAIN store \/ t - store[ip].windowStart > RATE_LIMIT_WINDOW_MS
    THEN [limited |-> FALSE,
          store |-> [k \in DOMAIN store \cup {ip} |->
                       IF k = ip THEN [count |-> 1, windowStart |-> t] ELSE store[k]]]
    ELSE IF store[ip].count > MAX_SUBMISSIONS_PER_WINDOW
    THEN [limited |-> TRUE, store |-> store]
    ELSE [limited |-> FALSE,
          store |-> [store EXCEPT ![ip].count = @ + 1]]

\* isRateLimited with the window compared by >= : the window ends a
\* millisecond early.
isRateLimitedEarlyReset(store, ip, t) ==
    IF ip \notin DOMAIN store \/ t - store[ip].windowStart >= RATE_LIMIT_WINDOW_MS
    THEN [limited |-> FALSE,
          store |-> [k \in DOMAIN store \cup {ip} |->
                       IF k = ip THEN [count |-> 1, windowStart |-> t] ELSE store[k]]]
    ELSE IF store[ip].count >= MAX_SUBMISSIONS_PER_WINDOW
    THEN [limited |-> TRUE, store |-> store]
    ELSE [limited |-> FALSE,
          store |-> [store EXCEPT ![ip].count = @ + 1]]

\* isRateLimited starting every new window with rateLimitStore.clear():
\* the first request of one address drops the records of the others.
isRateLimitedClearsStore(store, ip, t) ==
    IF ip \notin DOMAIN store \/ t - store[ip].windowStart > RATE_LIMIT_WINDOW_MS
    THEN [limited |-> FALSE,
          store |-> [k \in {ip} |-> [count |-> 1, windowStart |-> t]]]
    ELSE IF store[ip].count >= MAX_SUBMISSIONS_PER_WINDOW
    THEN [limited |-> TRUE, store |-> store]
    ELSE [limited |-> FALSE,
          store |-> [store EXCEPT ![ip].count = @ + 1]]

\* isRateLimited(ip) at time now on the store: the verdict and the store it
\* leaves behind.  The store is a function whose domain is the keys present.
isRateLimited(store, ip, t) ==
    IF ip \notin DOMAIN store \/ t - store[ip].windowStart > RATE_LIMIT_WINDOW_MS
    THEN [limited |-> FALSE,
          store |-> [k \in DOMAIN store \cup {ip} |->
                       IF k = ip THEN [count |-> 1, windowStart |-> t] ELSE store[k]]]
    ELSE IF store[ip].count >= MAX_SUBMISSIONS_PER_WINDOW
    THEN [limited |-> TRUE, store |-> store]
    ELSE [limited |-> FALSE,
          store |-> [store EXCEPT ![ip].count = @ + 1]]

\* ------------------------------------------------------------------------
\* Responses
\* ------------------------------------------------------------------------
JsonResponse(status, body) ==
    [status |-> status, cors |-> TRUE, contentType |-> "application/json", body |-> body]

PreflightResponse == [status |-> 200, cors |-> TRUE, contentType |-> "text/plain", body |-> [text |-> "ok"]]

MethodNotAllowed == JsonResponse(405, [error |-> "Method not allowed"])

TooManyRequests == JsonResponse(429, [error |-> "Too many submissions. Please try again later."])

BadRequest(msg) == JsonResponse(400, [error |-> msg])

\* The insert-error response with the error's own text in the body.
InsertFailedLeaky(detail) == JsonResponse(500, [error |-> detail])

InsertFailed(detail) == JsonResponse(500, [error |-> "Failed to submit message. Please try again."])

Unexpected(detail) == JsonResponse(500, [error |-> "An unexpected error occurred. Please try again."])

Success == JsonResponse(200, [success |-> TRUE, message |-> "Message sent successfully"])

\* ------------------------------------------------------------------------
\* Requests: headers, methods, bodies
\* ------------------------------------------------------------------------
\* xff: the comma-separated parts of x-forwarded-for, trimmed (<< >> when the
\* header is absent); cf: cf-connecting-ip ("" when absent).
HeaderSets ==
    { [xff |-> <<"10.0.0.1", "10.0.0.9">>, cf |-> "10.0.0.2"],
      [xff |-> << >>, cf |-> "10.0.0.1"],
      [xff |-> << >>, cf |-> ""] }

Methods == {"POST", "OPTIONS", "GET"}

clientIP(h) ==
    IF h.xff # << >> /\ h.xff[1] # "" THEN h.xff[1]
    ELSE IF h.cf # "" THEN h.cf
    ELSE "unknown"

Obj(n, e, m) == [kind |-> "object", name |-> n, email |-> e, message |-> m]

Unparsable == [kind |-> "unparsable"]

JsonNull == [kind |-> "null"]

JsonNumber == [kind |-> "number"]

TxtAl == <<"A","l">>

TxtMail == <<"x","@","y",".","c","o","m">>

TxtHello == <<"H","e","l","l","o"," ","t","h","e","r","e","!">>

TxtHi == <<"H","i">>

\* The request bodies the model draws from.
Bodies == <<
    Obj(Str(<<" ","A","l"," ">>), Str(<<" ","A","@","B",".","C","O","M","\t">>),
        Str(<<" ","H","e","l","l","o"," ","t","h","e","r","e","!"," ">>)),
    Obj(Str(<<"A">>), Str(TxtMail), Str(TxtHi)),
    Obj(Str(TxtAl), Str(<<"n","o","t","-","a","n","-","e","m","a","i","l">>), Str(TxtHi)),
    Obj(Str(TxtAl), Str(TxtMail), Str(TxtHi)),
    Obj(Str(TxtAl), Str(TxtMail), Str(<<"1","2","3","4","5","6","7","8","9">>)),
    Obj(Str(TxtAl), Str(<<"a",".","b","+","c","@","d","-","e",".","f","1",".","i","o">>), Str(<<"1","2","3","4","5","6","7","8","9","0">>)),
    Obj(Str(Rep("n", NameMaxLen)), Str(Rep("a", EmailMaxLen - 6) \o <<"@","b",".","c","o","m">>),
        Str(Rep("m", MessageMaxLen))),
    Obj(Str(Rep("n", NameMaxLen + 1)), Str(TxtMail), Str(TxtHello)),
    Obj(Str(TxtAl), Str(Rep("a", EmailMaxLen - 5) \o <<"@","b",".","c","o","m">>), Str(TxtHello)),
    Obj(Str(TxtAl), Str(TxtMail), Str(Rep("m", MessageMaxLen + 1))),
    Obj(Str(TxtAl), Str(<<"x","@","y",".","c">>), Str(TxtHello)),
    Obj(Str(<<" "," ">>), Str(TxtMail), Str(TxtHello)),
    Obj(Undefined, Str(TxtMail), Str(TxtHello)),
    Obj(Str(TxtAl), Null, Str(TxtHello)),
    Obj(Str(TxtAl), Str(TxtMail), Undefined),
    Obj(Num, Str(TxtMail), Str(TxtHello)),
    Obj(Str(<<"A">>), Num, Num),
    Obj(Str(TxtAl), Num, Str(TxtHi)),
    Obj(Str(TxtAl), Str(TxtMail), Num),
    Unparsable,
    JsonNull,
    JsonNumber >>

BodyIds == 1..Len(Bodies)

\* const { name, email, message } = body
Field(body, f) == IF body.kind = "object" THEN body[f] ELSE Undefined

\* ------------------------------------------------------------------------
\* The handler's validation chain and insert payload
\* ------------------------------------------------------------------------
NoResponse == [status |-> 0, cors |-> FALSE, contentType |-> "", body |-> [text |-> ""]]

NoChecked == [name |-> Undefined, email |-> Undefined, message |-> Undefined]

\* resp = NoResponse: every check passed and the handler goes on to insert.
\* evaluated: the validators called, in call order; checked: the value each
\* called validator looked at (its local `trimmed`).
\* detail: the text of the error thrown on the way, "" when nothing was thrown.
ChainResult(resp, ev, ck, detail) ==
    [resp |-> resp, evaluated |-> ev, checked |-> ck, detail |-> detail]

\* await req.json(), the destructuring and the three validations, with the
\* early returns and the catch of the handler.
ValidationChain(body) ==
    IF body.kind = "unparsable" THEN ChainResult(Unexpected("SyntaxError"), << >>, NoChecked, "SyntaxError")
    ELSE IF body.kind = "null" THEN ChainResult(Unexpected("TypeError"), << >>, NoChecked, "TypeError")
    ELSE
    LET nameValidation == validateName(Field(body, "name"))
        ck1 == [NoChecked EXCEPT !.name = nameValidation.trimmed]
    IN
    IF nameValidation.outcome = "throw"
    THEN ChainResult(Unexpected(nameValidation.error), <<"name">>, ck1, nameValidation.error)
    ELSE IF nameValidation.outcome = "invalid"
    THEN ChainResult(BadRequest(nameValidation.error), <<"name">>, ck1, "")
    ELSE
    LET emailValidation == validateEmail(Field(body, "email"))
        ck2 == [ck1 EXCEPT !.email = emailValidation.trimmed]
    IN
    IF emailValidation.outcome = "throw"
    THEN ChainResult(Unexpected(emailValidation.error), <<"name", "email">>, ck2, emailValidation.error)
    ELSE IF emailValidation.outcome = "invalid"
    THEN ChainResult(BadRequest(emailValidation.error), <<"name", "email">>, ck2, "")
    ELSE
    LET messageValidation == validateMessage(Field(body, "message"))
        ck3 == [ck2 EXCEPT !.message = messageValidation.trimmed]
    IN
    IF messageValidation.outcome = "throw"
    THEN ChainResult(Unexpected(messageValidation.error), <<"name", "email", "message">>, ck3, messageValidation.error)
    ELSE IF messageValidation.outcome = "invalid"
    THEN ChainResult(BadRequest(messageValidation.error), <<"name", "email", "message">>, ck3, "")
    ELSE ChainResult(NoResponse, <<"name", "email", "message">>, ck3, "")

\* The insert payload with the e-mail trimmed but not lowercased.
InsertRowNoLower(body) ==
    [name |-> trim(body.name.v),
     email |-> trim(body.email.v),
     message |-> trim(body.message.v)]

\* The object handed to .insert(): name.trim(), email.trim().toLowerCase(),
\* message.trim().  Reached only when all three fields are strings.
InsertRow(body) ==
    [name |-> trim(body.name.v),
     email |-> toLowerCase(trim(body.email.v)),
     message |-> trim(body.message.v)]

\* What the awaited insert can come back with: no error, an error object
\* with a message, or a rejection.
InsertOutcomes ==
    { [kind |-> "ok", detail |-> ""],
      [kind |-> "error", detail |-> "new row violates row-level security policy"],
      [kind |-> "throw", detail |-> "error sending request" ] }

\* The chain and the payload per body of the table, computed once.
ChainOf == [b \in BodyIds |-> ValidationChain(Bodies[b])]

RowOf == [b \in {x \in BodyIds : ChainOf[x].resp = NoResponse} |-> InsertRow(Bodies[b])]

\* ------------------------------------------------------------------------
\* State of one edge-function instance
\* ------------------------------------------------------------------------
VARIABLES
    now,             \* Date.now(), in ms since the instance started
    ticks,           \* number of clock advances so far
    rateLimitStore,  \* the Map ip -> {count, windowStart}
    inflight,        \* invocations suspended at an await, by slot
    db,              \* rows of contact_messages, in insertion order
    last,            \* what the handler step just taken did (Idle after a clock step)
    passed           \* ip -> POSTs that passed the rate-limit check, per window start

EmptyStore == [k \in {} |-> [count |-> 0, windowStart |-> 0]]

\* One invocation.  body is the index of the request body in Bodies, known
\* once the handler has read it or has answered without reading it; at,
\* before and after describe the rate-limit check of the step just taken.
Idle ==
    [pc |-> "idle", step |-> "none", method |-> "", ip |-> "", body |-> 0, at |-> 0,
     limited |-> FALSE, before |-> EmptyStore, after |-> EmptyStore, parsed |-> FALSE,
     evaluated |-> << >>, checked |-> NoChecked, sent |-> << >>,
     insert |-> "", detail |-> "", stored |-> FALSE, resp |-> NoResponse]

Slots == 1..MaxInFlight

FreeSlots == {s \in Slots : inflight[s].pc = "idle"}

\* passes counted in the window that starts at ws
CountPass(p, ip, ws) ==
    [k \in DOMAIN p \cup {ip} |->
        IF k # ip THEN p[k]
        ELSE IF ip \in DOMAIN p /\ p[ip].windowStart = ws
             THEN [windowStart |-> ws, n |-> p[ip].n + 1]
             ELSE [windowStart |-> ws, n |-> 1]]

InitServer ==
    /\ now = 0
    /\ ticks = 0
    /\ rateLimitStore = EmptyStore
    /\ inflight = [s \in Slots |-> Idle]
    /\ db = << >>
    /\ last = Idle
    /\ passed = [k \in {} |-> [windowStart |-> 0, n |-> 0]]

\* Time passes between events.
Tick(d) ==
    /\ ticks < MaxTicks
    /\ ticks' = ticks + 1
    /\ now' = now + d
    /\ last' = Idle
    /\ UNCHANGED <<rateLimitStore, inflight, db, passed>>

\* HandleRequest with the rate-limit check ahead of the method check: a
\* request of any method but OPTIONS is counted against its address.
HandleRequestLimitsFirst(h, method, b) ==
    /\ LET inv == [Idle EXCEPT !.step = "arrive", !.method = method, !.at = now,
                               !.before = rateLimitStore, !.after = rateLimitStore]
       IN
       IF method = "OPTIONS"
       THEN /\ last' = [inv EXCEPT !.pc = "done", !.body = b, !.resp = PreflightResponse]
            /\ UNCHANGED <<rateLimitStore, inflight, passed>>
       ELSE
       LET ip == clientIP(h)
           r == isRateLimited(rateLimitStore, ip, now)
           inv2 == [inv EXCEPT !.ip = ip, !.limited = r.limited, !.after = r.store]
       IN
       /\ rateLimitStore' = r.store
       /\ IF r.limited
          THEN /\ last' = [inv2 EXCEPT !.pc = "done", !.body = b, !.resp = TooManyRequests]
               /\ UNCHANGED <<inflight, passed>>
          ELSE IF method # "POST"
          THEN /\ last' = [inv2 EXCEPT !.pc = "done", !.body = b, !.resp = MethodNotAllowed]
               /\ UNCHANGED <<inflight, passed>>
          ELSE /\ FreeSlots # {}
               /\ inflight' = [inflight EXCEPT ![SetMin(FreeSlots)] =
                                 [Idle EXCEPT !.pc = "parse", !.method = method, !.ip = ip]]
               /\ passed' = CountPass(passed, ip, r.store[ip].windowStart)
               /\ last' = [inv2 EXCEPT !.pc = "parse"]
    /\ UNCHANGED <<now, ticks, db>>

\* A request arrives: the handler runs up to its first await or its return.
\* OPTIONS and non-POST return at once; a POST is rate-limited on its client
\* address and, if it passes, suspends at await req.json().
HandleRequest(h, method, b) ==
    /\ LET inv == [Idle EXCEPT !.step = "arrive", !.method = method, !.at = now,
                               !.before = rateLimitStore, !.after = rateLimitStore]
       IN
       IF method = "OPTIONS"
       THEN /\ last' = [inv EXCEPT !.pc = "done", !.body = b, !.resp = PreflightResponse]
            /\ UNCHANGED <<rateLimitStore, inflight, passed>>
       ELSE IF method # "POST"
       THEN /\ last' = [inv EXCEPT !.pc = "done", !.body = b, !.resp = MethodNotAllowed]
            /\ UNCHANGED <<rateLimitStore, inflight, passed>>
       ELSE
       LET ip == clientIP(h)
           r == isRateLimited(rateLimitStore, ip, now)
           inv2 == [inv EXCEPT !.ip = ip, !.limited = r.limited, !.after = r.store]
       IN
       /\ rateLimitStore' = r.store
       /\ IF r.limited
          THEN /\ last' = [inv2 EXCEPT !.pc = "done", !.body = b, !.resp = TooManyRequests]
               /\ UNCHANGED <<inflight, passed>>
          ELSE /\ FreeSlots # {}
               /\ inflight' = [inflight EXCEPT ![SetMin(FreeSlots)] =
                                 [Idle EXCEPT !.pc = "parse", !.method = method, !.ip = ip]]
               /\ passed' = CountPass(passed, ip, r.store[ip].windowStart)
               /\ last' = [inv2 EXCEPT !.pc = "parse"]
    /\ UNCHANGED <<now, ticks, db>>

\* BodyParsed giving the slot back when the request is answered without an
\* insert: the count of the address is decremented.
BodyParsedRefunds(s, b) ==
    /\ inflight[s].pc = "parse"
    /\ LET c == ChainOf[b]
           inv == [inflight[s] EXCEPT !.step = "parsed", !.body = b, !.parsed = TRUE,
                                      !.evaluated = c.evaluated, !.checked = c.checked,
                                      !.detail = c.detail]
       IN
       IF c.resp # NoResponse
       THEN /\ last' = [inv EXCEPT !.pc = "done", !.resp = c.resp]
            /\ inflight' = [inflight EXCEPT ![s] = Idle]
            /\ rateLimitStore' = [rateLimitStore EXCEPT ![inflight[s].ip].count = @ - 1]
       ELSE /\ last' = [inv EXCEPT !.pc = "insert", !.sent = <<RowOf[b]>>]
            /\ inflight' = [inflight EXCEPT ![s] = [last' EXCEPT !.step = "none"]]
            /\ UNCHANGED rateLimitStore
    /\ UNCHANGED <<now, ticks, db, passed>>

\* await req.json() settles with the request's body: destructure, validate,
\* and either return a response or issue the insert and suspend on it.
BodyParsed(s, b) ==
    /\ inflight[s].pc = "parse"
    /\ LET c == ChainOf[b]
           inv == [inflight[s] EXCEPT !.step = "parsed", !.body = b, !.parsed = TRUE,
                                      !.evaluated = c.evaluated, !.checked = c.checked,
                                      !.detail = c.detail]
       IN
       IF c.resp # NoResponse
       THEN /\ last' = [inv EXCEPT !.pc = "done", !.resp = c.resp]
            /\ inflight' = [inflight EXCEPT ![s] = Idle]
       ELSE /\ last' = [inv EXCEPT !.pc = "insert", !.sent = <<RowOf[b]>>]
            /\ inflight' = [inflight EXCEPT ![s] = [last' EXCEPT !.step = "none"]]
    /\ UNCHANGED <<now, ticks, rateLimitStore, db, passed>>

\* The awaited insert settles and the handler returns.
InsertSettled(s, o) ==
    /\ inflight[s].pc = "insert"
    /\ o.kind = "ok" => Len(db) < MaxStored
    /\ LET inv == [inflight[s] EXCEPT !.pc = "done", !.step = "settled",
                                      !.insert = o.kind, !.detail = o.detail] IN
       /\ IF o.kind = "ok"
          THEN /\ db' = Append(db, inv.sent[1])
               /\ last' = [inv EXCEPT !.stored = TRUE, !.resp = Success]
          ELSE IF o.kind = "error"
          THEN /\ last' = [inv EXCEPT !.resp = InsertFailed(o.detail)]
               /\ UNCHANGED db
          ELSE /\ last' = [inv EXCEPT !.resp = Unexpected(o.detail)]
               /\ UNCHANGED db
    /\ inflight' = [inflight EXCEPT ![s] = Idle]
    /\ UNCHANGED <<now, ticks, rateLimitStore, passed>>

\* ------------------------------------------------------------------------
\* The contact form (ContactSection)
\* ------------------------------------------------------------------------
VARIABLES
    formData,      \* the three controlled fields
    isSubmitting,  \* the useState flag
    pending,       \* handleSubmit invocations suspended at the awaited invoke
    ended          \* the handleSubmit invocation that finished in the step just taken

formVars == <<formData, isSubmitting, pending, ended>>

EmptyForm == [name |-> << >>, email |-> << >>, message |-> << >>]

\* What the user can type into each field.
FieldValues ==
    [name |-> { << >>, <<" ","A"," ">>, <<" ","A","l"," ">>, Rep("n", NameMaxLen + 1) },
     email |-> { << >>, <<" ","A","@","B",".","C","O","M"," ">> },
     message |-> { <<" "," "," "," ","H","i"," "," "," "," ">>, <<" ","H","e","l","l","o"," ","t","h","e","r","e","!"," ">>, Rep("m", MessageMaxLen + 1) }]

Toast(title, description, variant) ==
    [title |-> title, description |-> description, variant |-> variant]

NoAttempt == [path |-> "none", data |-> EmptyForm, toasts |-> << >>, sent |-> 0]

\* A submit button without the disabled attribute.
ButtonNeverDisabled == FALSE

\* disabled={isSubmitting} on the submit button: a disabled submit button
\* produces no submit event.
ButtonDisabled == isSubmitting

\* What supabase.functions.invoke can settle with: {data, error} with a null
\* error, {data, error} with an error object, or a rejection.
InvokeOutcomes ==
    { [kind |-> "data", error |-> "", message |-> ""],
      [kind |-> "data", error |-> "Too many submissions. Please try again later.", message |-> ""],
      [kind |-> "error", error |-> "", message |-> "Edge Function returned a non-2xx status code"],
      [kind |-> "error", error |-> "", message |-> ""],
      [kind |-> "reject", error |-> "", message |-> "Failed to fetch"] }

ErrorToast(message) ==
    Toast("Error",
          IF message # "" THEN message ELSE "Failed to send message. Please try again.",
          "destructive")

InitForm ==
    /\ formData = EmptyForm
    /\ isSubmitting = FALSE
    /\ pending = << >>
    /\ ended = NoAttempt

\* handleChange: one field takes the typed value.
handleChange(field, value) ==
    /\ formData' = [formData EXCEPT ![field] = value]
    /\ ended' = NoAttempt
    /\ UNCHANGED <<isSubmitting, pending>>

\* handleSubmit without the local message check: any attempt whose name
\* passes is sent.
handleSubmitNoMessageCheck ==
    /\ ~ButtonDisabled
    /\ Len(pending) < MaxPending
    /\ LET trimmedData == [name |-> trim(formData.name),
                           email |-> toLowerCase(trim(formData.email)),
                           message |-> trim(formData.message)]
           attempt == [NoAttempt EXCEPT !.data = trimmedData]
       IN
       IF Len(trimmedData.name) < NameMinLen \/ Len(trimmedData.name) > NameMaxLen
       THEN /\ ended' = [attempt EXCEPT !.path = "invalid-name", !.toasts =
                           <<Toast("Invalid Name", "Name must be between 2 and 100 characters.",
                                   "destructive")>>]
            /\ isSubmitting' = FALSE
            /\ UNCHANGED pending
       ELSE /\ pending' = Append(pending, [attempt EXCEPT !.path = "invoke", !.sent = 1])
            /\ isSubmitting' = TRUE
            /\ ended' = NoAttempt
    /\ UNCHANGED formData

\* A submit event runs handleSubmit up to its return or to the awaited
\* invoke: setIsSubmitting(true), trim, the two local checks.
handleSubmit ==
    /\ ~ButtonDisabled
    /\ Len(pending) < MaxPending
    /\ LET trimmedData == [name |-> trim(formData.name),
                           email |-> toLowerCase(trim(formData.email)),
                           message |-> trim(formData.message)]
           attempt == [NoAttempt EXCEPT !.data = trimmedData]
       IN
       IF Len(trimmedData.name) < NameMinLen \/ Len(trimmedData.name) > NameMaxLen
       THEN /\ ended' = [attempt EXCEPT !.path = "invalid-name", !.toasts =
                           <<Toast("Invalid Name", "Name must be between 2 and 100 characters.",
                                   "destructive")>>]
            /\ isSubmitting' = FALSE
            /\ UNCHANGED pending
       ELSE IF Len(trimmedData.message) < MessageMinLen
               \/ Len(trimmedData.message) > MessageMaxLen
       THEN /\ ended' = [attempt EXCEPT !.path = "invalid-message", !.toasts =
                           <<Toast("Invalid Message",
                                   "Message must be between 10 and 5000 characters.",
                                   "destructive")>>]
            /\ isSubmitting' = FALSE
            /\ UNCHANGED pending
       ELSE /\ pending' = Append(pending, [attempt EXCEPT !.path = "invoke", !.sent = 1])
            /\ isSubmitting' = TRUE
            /\ ended' = NoAttempt
    /\ UNCHANGED formData

\* InvokeSettled with setIsSubmitting(false) at the end of the try block
\* instead of in a finally: the error paths leave the flag set.
InvokeSettledNoFinally(i, o) ==
    /\ i \in 1..Len(pending)
    /\ LET attempt == pending[i] IN
       IF o.kind = "data" /\ o.error = ""
       THEN /\ ended' = [attempt EXCEPT !.path = "success", !.toasts =
                           <<Toast("Message sent!",
                                   "Thank you for reaching out. I'll get back to you soon!",
                                   "default")>>]
            /\ formData' = EmptyForm
            /\ isSubmitting' = FALSE
       ELSE /\ ended' = [attempt EXCEPT !.path = "transport-error",
                                        !.toasts = <<ErrorToast(o.message)>>]
            /\ UNCHANGED <<formData, isSubmitting>>
    /\ pending' = [k \in 1..(Len(pending) - 1) |-> IF k < i THEN pending[k] ELSE pending[k + 1]]

\* The awaited invoke of the i-th suspended handleSubmit settles: the rest
\* of the try block, the catch and the finally.
InvokeSettled(i, o) ==
    /\ i \in 1..Len(pending)
    /\ LET attempt == pending[i] IN
       /\ IF o.kind = "data" /\ o.error = ""
          THEN /\ ended' = [attempt EXCEPT !.path = "success", !.toasts =
                              <<Toast("Message sent!",
                                      "Thank you for reaching out. I'll get back to you soon!",
                                      "default")>>]
               /\ formData' = EmptyForm
          ELSE IF o.kind = "data"
          THEN /\ ended' = [attempt EXCEPT !.path = "app-error", !.toasts = <<ErrorToast(o.error)>>]
               /\ UNCHANGED formData
          ELSE /\ ended' = [attempt EXCEPT !.path = "transport-error",
                                           !.toasts = <<ErrorToast(o.message)>>]
               /\ UNCHANGED formData
       /\ isSubmitting' = FALSE
       /\ pending' = [k \in 1..(Len(pending) - 1) |-> IF k < i THEN pending[k] ELSE pending[k + 1]]

serverVars == <<now, ticks, rateLimitStore, inflight, db, last, passed>>

vars == <<serverVars, formVars>>

Init == InitServer /\ InitForm

NoneInFlight == \A s \in Slots : inflight[s].pc = "idle"

\* The bodies used where the claim is about rate limiting: one that is
\* stored, one that fails validation, one that throws.
FewBodies == {1, 2, 16}

\* The clock advances by a millisecond, by exactly one window, or by one
\* window and a millisecond.
TickSteps == {1, RATE_LIMIT_WINDOW_MS, RATE_LIMIT_WINDOW_MS + 1}

NextServer ==
    \/ \E d \in TickSteps : Tick(d) /\ UNCHANGED formVars
    \/ \E h \in HeaderSets, method \in Methods, b \in FewBodies :
         NoneInFlight /\ HandleRequest(h, method, b) /\ UNCHANGED formVars
    \/ \E s \in Slots, b \in FewBodies : BodyParsed(s, b) /\ UNCHANGED formVars
    \/ \E s \in Slots, o \in InsertOutcomes : InsertSettled(s, o) /\ UNCHANGED formVars

\* Requests of every method from two addresses, one at a time, with the
\* clock advancing between events.
SpecServer == Init /\ [][NextServer]_vars

NextValidation ==
    \/ \E b \in BodyIds :
         /\ NoneInFlight
         /\ HandleRequest([xff |-> << >>, cf |-> "10.0.0.1"], "POST", b)
         /\ UNCHANGED formVars
    \/ \E s \in Slots, b \in BodyIds : BodyParsed(s, b) /\ UNCHANGED formVars
    \/ \E s \in Slots, o \in InsertOutcomes : InsertSettled(s, o) /\ UNCHANGED formVars

\* POST requests of every body shape, one at a time, from one address.
SpecValidation == Init /\ [][NextValidation]_vars

NextConcurrent ==
    \/ \E h \in HeaderSets, b \in FewBodies : HandleRequest(h, "POST", b) /\ UNCHANGED formVars
    \/ \E s \in Slots, b \in FewBodies : BodyParsed(s, b) /\ UNCHANGED formVars
    \/ \E s \in Slots, o \in InsertOutcomes : InsertSettled(s, o) /\ UNCHANGED formVars

\* POST requests from two addresses within one window, interleaved at the
\* awaits, up to MaxInFlight at a time.
SpecConcurrent == Init /\ [][NextConcurrent]_vars

NextForm ==
    \/ \E field \in {"name", "email", "message"} :
         \E value \in FieldValues[field] : handleChange(field, value) /\ UNCHANGED serverVars
    \/ handleSubmit /\ UNCHANGED serverVars
    \/ \E i \in 1..MaxPending, o \in InvokeOutcomes : InvokeSettled(i, o) /\ UNCHANGED serverVars

\* The form alone: typing, submit events, and every way the invoke settles.
SpecForm == Init /\ [][NextForm]_vars

\* ------------------------------------------------------------------------
\* Properties of the rate limiter
\* ------------------------------------------------------------------------
\* The step just taken was the arrival of a POST.
PostArrived == last.step = "arrive" /\ last.method = "POST"

\* The arriving POST found a record of its address.
HadRecord == PostArrived /\ last.ip \in DOMAIN last.before

\* Milliseconds between the start of that record's window and the arrival.
Age == last.at - last.before[last.ip].windowStart

\* POSTs of the address that had passed the check in the record's window
\* before the arriving one.
PrePasses ==
    IF last.ip \in DOMAIN passed
       /\ passed[last.ip].windowStart = last.before[last.ip].windowStart
    THEN passed[last.ip].n - (IF last.limited THEN 0 ELSE 1)
    ELSE 0

\* C1: per address and window at most 5 POSTs pass the rate-limit check;
\* every further POST of the address in that window is answered 429 with an
\* {error} body, leaves the address's record as it was, and is neither
\* parsed nor inserted.
C1_AtMostFivePerWindow ==
    /\ \A ip \in DOMAIN passed : passed[ip].n <= MAX_SUBMISSIONS_PER_WINDOW
    /\ (HadRecord /\ Age <= RATE_LIMIT_WINDOW_MS /\ PrePasses >= MAX_SUBMISSIONS_PER_WINDOW) =>
          /\ last.limited
          /\ last.resp.status = 429
          /\ DOMAIN last.resp.body = {"error"}
          /\ last.after[last.ip] = last.before[last.ip]
          /\ rateLimitStore[last.ip] = last.before[last.ip]
          /\ last.pc = "done"
          /\ ~last.parsed
          /\ last.sent = << >>
          /\ ~last.stored
          /\ NoneInFlight

\* A sixth POST, later in the window of five passed ones, was answered 429.
C1_Witness ==
    /\ HadRecord
    /\ last.resp.status = 429
    /\ passed[last.ip].n = MAX_SUBMISSIONS_PER_WINDOW
    /\ Age > 0
    /\ Age <= RATE_LIMIT_WINDOW_MS

\* C2: the window is reset, not sliding.  A POST that finds a record of
\* count 5 more than one hour after windowStart passes and leaves
\* {count: 1, windowStart: now}; a rejected POST changes neither count nor
\* windowStart; a POST at exactly windowStart + 1 hour is counted in the old
\* window.
C2_WindowReset ==
    /\ (HadRecord /\ last.before[last.ip].count = MAX_SUBMISSIONS_PER_WINDOW
          /\ Age > RATE_LIMIT_WINDOW_MS) =>
          /\ ~last.limited
          /\ last.pc = "parse"
          /\ last.after[last.ip] = [count |-> 1, windowStart |-> last.at]
          /\ rateLimitStore[last.ip] = [count |-> 1, windowStart |-> last.at]
    /\ (PostArrived /\ last.limited) =>
          /\ last.after = last.before
          /\ rateLimitStore = last.before
    /\ (HadRecord /\ Age = RATE_LIMIT_WINDOW_MS) =>
          /\ last.after[last.ip].windowStart = last.before[last.ip].windowStart
          /\ IF last.before[last.ip].count >= MAX_SUBMISSIONS_PER_WINDOW
             THEN last.limited /\ last.after[last.ip].count = last.before[last.ip].count
             ELSE ~last.limited /\ last.after[last.ip].count = last.before[last.ip].count + 1

\* A POST found a full record past its window and started a fresh count.
C2_Witness ==
    /\ HadRecord
    /\ last.before[last.ip].count = MAX_SUBMISSIONS_PER_WINDOW
    /\ Age > RATE_LIMIT_WINDOW_MS
    /\ rateLimitStore[last.ip] = [count |-> 1, windowStart |-> last.at]

\* ------------------------------------------------------------------------
\* Properties of validation and persistence
\* ------------------------------------------------------------------------
NameOk(x) ==
    IsStr(x) /\ Len(trim(x.v)) >= NameMinLen /\ Len(trim(x.v)) <= NameMaxLen

EmailOk(x) ==
    IsStr(x) /\ Len(toLowerCase(trim(x.v))) <= EmailMaxLen
             /\ emailRegex(toLowerCase(trim(x.v)))

MessageOk(x) ==
    IsStr(x) /\ Len(trim(x.v)) >= MessageMinLen /\ Len(trim(x.v)) <= MessageMaxLen

ValidSubmission(body) ==
    /\ body.kind = "object"
    /\ NameOk(body.name)
    /\ EmailOk(body.email)
    /\ MessageOk(body.message)

ValidIds == {b \in BodyIds : ValidSubmission(Bodies[b])}

SuccessBody == [success |-> TRUE, message |-> "Message sent successfully"]

\* C3 as stated: every POST with a valid name, e-mail and message is
\* persisted and answered 200 {success: true, message: "Message sent
\* successfully"}.
C3_ValidPostSucceeds ==
    (last.pc = "done" /\ last.method = "POST" /\ last.body \in ValidIds) =>
        /\ last.resp.status = 200
        /\ last.resp.body = SuccessBody
        /\ last.stored

\* C3 amended: a POST with a valid name, e-mail and message that passed the
\* rate-limit check issues one insert; when that insert settles without an
\* error the row is in the table and the answer is 200 {success: true,
\* message: "Message sent successfully"}.
C3_ValidPostSucceedsUnlessLimitedOrInsertFails ==
    /\ (last.step = "parsed" /\ last.body \in ValidIds) =>
          /\ last.pc = "insert"
          /\ Len(last.sent) = 1
          /\ \E s \in Slots : inflight[s].pc = "insert" /\ inflight[s].sent = last.sent
    /\ (last.step = "settled" /\ last.body \in ValidIds /\ last.insert = "ok") =>
          /\ last.pc = "done"
          /\ last.resp.status = 200
          /\ last.resp.body = SuccessBody
          /\ last.stored
          /\ Len(db) > 0
          /\ db[Len(db)] = last.sent[1]

\* A submission at the lower bounds (name of 2, message of 10 characters)
\* was stored and answered 200.
C3_Witness ==
    /\ last.step = "settled"
    /\ last.body \in ValidIds
    /\ Len(Bodies[last.body].message.v) = MessageMinLen
    /\ last.resp.status = 200
    /\ Len(db) > 0

FieldOrder == <<"name", "email", "message">>

ErrorsOf ==
    [name |-> {"Name is required", "Name must be at least 2 characters",
               "Name must be less than 100 characters"},
     email |-> {"Email is required", "Email must be less than 255 characters",
                "Please enter a valid email address"},
     message |-> {"Message is required", "Message must be at least 10 characters",
                  "Message must be less than 5000 characters"}]

\* Position in FieldOrder of the first field of the body that is not valid,
\* 0 when all three are.
FirstFailing(body) ==
    IF ~NameOk(Field(body, "name")) THEN 1
    ELSE IF ~EmailOk(Field(body, "email")) THEN 2
    ELSE IF ~MessageOk(Field(body, "message")) THEN 3
    ELSE 0

FirstFailingOf == [b \in BodyIds |-> FirstFailing(Bodies[b])]

\* C4 as stated: a POST that passed the rate-limit check and has a failing
\* field is answered 400 with the message of the first failing field in the
\* order name, email, message, and no later field is evaluated.
C4_FirstFailingFieldReported ==
    (last.step = "parsed" /\ Bodies[last.body].kind = "object"
        /\ FirstFailingOf[last.body] # 0) =>
        /\ last.resp.status = 400
        /\ last.resp.body.error \in ErrorsOf[FieldOrder[FirstFailingOf[last.body]]]
        /\ last.evaluated = SubSeq(FieldOrder, 1, FirstFailingOf[last.body])

RowOk(r) ==
    /\ Len(r.name) >= NameMinLen /\ Len(r.name) <= NameMaxLen
    /\ Len(r.email) <= EmailMaxLen /\ emailRegex(r.email)
    /\ Len(r.message) >= MessageMinLen /\ Len(r.message) <= MessageMaxLen

\* C5: every row inserted has a name of 2..100, an e-mail of at most 255
\* characters that matches the pattern, and a message of 10..5000
\* characters; a request that breaks a bound causes no insert.
C5_StoredRowsWithinBounds ==
    /\ \A i \in 1..Len(db) : RowOk(db[i])
    /\ \A s \in Slots : \A i \in 1..Len(inflight[s].sent) : RowOk(inflight[s].sent[i])
    /\ (last.step = "parsed" /\ last.body \notin ValidIds) =>
          /\ last.pc = "done"
          /\ last.sent = << >>
          /\ ~last.stored
          /\ \A s \in Slots : inflight[s].pc # "insert"

\* A row at the upper bounds (100, 255 and 5000 characters) is in the table.
C5_Witness ==
    \E i \in 1..Len(db) :
        /\ Len(db[i].name) = NameMaxLen
        /\ Len(db[i].email) = EmailMaxLen
        /\ Len(db[i].message) = MessageMaxLen

\* C6: the row handed to the insert is {trim(name), lowercase(trim(email)),
\* trim(message)} of the request, the values the validators checked; one
\* insert is issued; name " Al ", e-mail " A@B.COM" is stored as "Al",
\* "a@b.com".
C6_InsertsNormalizedRow ==
    /\ (last.pc = "insert" \/ last.step = "settled") =>
          /\ Len(last.sent) = 1
          /\ last.sent[1].name = trim(Bodies[last.body].name.v)
          /\ last.sent[1].email = toLowerCase(trim(Bodies[last.body].email.v))
          /\ last.sent[1].message = trim(Bodies[last.body].message.v)
          /\ Str(last.sent[1].name) = last.checked.name
          /\ Str(last.sent[1].email) = last.checked.email
          /\ Str(last.sent[1].message) = last.checked.message
    /\ ((last.pc = "insert" \/ last.step = "settled") /\ last.body = 1) =>
          last.sent[1] = [name |-> <<"A","l">>,
                          email |-> <<"a","@","b",".","c","o","m">>,
                          message |-> <<"H","e","l","l","o"," ","t","h","e","r","e","!">>]
    /\ last.stored => db[Len(db)] = last.sent[1]

\* The example submission was stored with its e-mail lowercased.
C6_Witness ==
    /\ last.stored
    /\ last.body = 1
    /\ db[Len(db)].email = <<"a","@","b",".","c","o","m">>

\* C7 as stated: a POST that passed the rate-limit check and whose input is
\* missing, malformed or out of bounds is answered 400 with a field-specific
\* message, never 500.
C7_ClientErrorsAnswered400 ==
    (last.step = "parsed" /\ last.body \notin ValidIds) =>
        /\ last.resp.status = 400
        /\ last.resp.body.error \in ErrorsOf.name \cup ErrorsOf.email \cup ErrorsOf.message

GenericErrors ==
    { "Failed to submit message. Please try again.",
      "An unexpected error occurred. Please try again." }

\* C8: when the insert reports an error or a step throws, the answer is 500
\* with one of the two fixed messages and nothing of the error's own text,
\* no success is reported, and the handler still returns a response.
C8_FailuresAnsweredGenerically ==
    /\ (last.pc = "done" /\ last.detail # "") =>
          /\ last.resp.status = 500
          /\ DOMAIN last.resp.body = {"error"}
          /\ last.resp.body.error \in GenericErrors
          /\ last.resp.body.error # last.detail
          /\ ~last.stored
    /\ (last.step = "settled" /\ last.insert # "ok") => last.detail # ""
    /\ last.pc = "done" => last.resp.status \in {200, 400, 405, 429, 500}

\* An insert error was answered 500.
C8_Witness ==
    /\ last.step = "settled"
    /\ last.insert = "error"
    /\ last.resp.status = 500

\* ------------------------------------------------------------------------
\* Properties of the form
\* ------------------------------------------------------------------------
TitleOf ==
    [x \in {"invalid-name", "invalid-message", "success", "app-error", "transport-error"} |->
        CASE x = "invalid-name" -> "Invalid Name"
          [] x = "invalid-message" -> "Invalid Message"
          [] x = "success" -> "Message sent!"
          [] OTHER -> "Error"]

\* C9: every handleSubmit that ends has shown exactly one toast (invalid
\* name, invalid message, success or error) and leaves isSubmitting false.
C9_OneOutcomePerAttempt ==
    ended.path # "none" =>
        /\ ended.path \in DOMAIN TitleOf
        /\ Len(ended.toasts) = 1
        /\ ended.toasts[1].title = TitleOf[ended.path]
        /\ (ended.path = "success") = (ended.toasts[1].variant = "default")
        /\ ended.toasts[1].description # ""
        /\ isSubmitting = FALSE

\* An attempt whose invoke failed in transport ended with one error toast.
C9_Witness ==
    /\ ended.path = "transport-error"
    /\ Len(ended.toasts) = 1
    /\ ended.sent = 1
    /\ ~isSubmitting

\* C10: while an invoke is outstanding isSubmitting is true and the submit
\* button is disabled, so at most one invoke is outstanding at any time.
C10_OneRequestInFlight ==
    /\ Len(pending) <= 1
    /\ Len(pending) = 1 => (isSubmitting /\ ButtonDisabled)

\* An invoke is outstanding while the user has typed something else.
C10_Witness ==
    /\ Len(pending) = 1
    /\ isSubmitting
    /\ trim(formData.name) # pending[1].data.name

\* What handleSubmit computes from the fields at the submit event.
TrimmedOf(fd) ==
    [name |-> trim(fd.name), email |-> toLowerCase(trim(fd.email)), message |-> trim(fd.message)]

LocalChecksPass(fd) ==
    /\ Len(trim(fd.name)) >= NameMinLen
    /\ Len(trim(fd.name)) <= NameMaxLen
    /\ Len(trim(fd.message)) >= MessageMinLen
    /\ Len(trim(fd.message)) <= MessageMaxLen

\* C11: a submit whose trimmed name is outside 2..100 or whose trimmed
\* message is outside 10..5000 is rejected locally, sends nothing and keeps
\* the fields; a request is sent, once and with the trimmed name and
\* message and the trimmed lowercased email, only when both checks pass;
\* the fields are cleared only by an attempt that ended in success.
C11_LocalRejectSendsNothing ==
    [][ /\ ended'.path \in {"invalid-name", "invalid-message"} =>
              /\ ~LocalChecksPass(formData)
              /\ (ended'.path = "invalid-name") =
                     (Len(trim(formData.name)) < NameMinLen \/ Len(trim(formData.name)) > NameMaxLen)
              /\ ended'.sent = 0
              /\ pending' = pending
              /\ formData' = formData
        /\ Len(pending') > Len(pending) =>
              /\ LocalChecksPass(formData)
              /\ Len(pending') = Len(pending) + 1
              /\ pending'[Len(pending')].data = TrimmedOf(formData)
              /\ pending'[Len(pending')].sent = 1
              /\ formData' = formData
        /\ (ended'.path # "none" /\ formData' # formData) => ended'.path = "success"
        /\ ended'.path = "success" => (formData' = EmptyForm /\ ended'.sent = 1)
        /\ ended'.path \in {"app-error", "transport-error"} =>
              (formData' = formData /\ ended'.sent = 1)
      ]_vars

\* A submit with a good name and a message of two characters between
\* spaces was rejected locally: nothing sent, the fields as typed.
C11_Witness ==
    /\ ended.path = "invalid-message"
    /\ ended.sent = 0
    /\ Len(pending) = 0
    /\ formData.name = <<" ","A","l"," ">>
    /\ Len(formData.message) = MessageMinLen
    /\ Len(trim(formData.message)) = 2

\* ------------------------------------------------------------------------
\* Properties of the order of the handler's steps
\* ------------------------------------------------------------------------
\* Whether a POST of each address arriving now would be answered 429.
WouldLimit(store, t) ==
    [a \in {clientIP(h) : h \in HeaderSets} |-> isRateLimited(store, a, t).limited]

\* C12: a request that is neither POST nor OPTIONS is answered 405 and an
\* OPTIONS request is answered with the cross-origin headers; neither
\* touches the rate-limit store, suspends, parses or inserts, so whether a
\* later POST of any address is limited is the same before and after it.
C12_MethodCheckBeforeRateLimit ==
    [][ (last'.step = "arrive" /\ last'.method # "POST") =>
            /\ IF last'.method = "OPTIONS"
               THEN last'.resp.status = 200 /\ last'.resp.body = [text |-> "ok"]
               ELSE last'.resp.status = 405 /\ last'.resp.body = [error |-> "Method not allowed"]
            /\ last'.resp.cors
            /\ last'.pc = "done"
            /\ ~last'.parsed
            /\ last'.sent = << >>
            /\ rateLimitStore' = rateLimitStore
            /\ passed' = passed
            /\ inflight' = inflight
            /\ db' = db
            /\ WouldLimit(rateLimitStore', now') = WouldLimit(rateLimitStore, now)
      ]_vars

\* A GET was answered 405 while some address had four counted POSTs: one
\* more counted request would have closed that address's window.
C12_Witness ==
    /\ last.step = "arrive"
    /\ last.method = "GET"
    /\ last.resp.status = 405
    /\ \E a \in DOMAIN rateLimitStore :
          /\ rateLimitStore[a].count = MAX_SUBMISSIONS_PER_WINDOW - 1
          /\ ~isRateLimited(rateLimitStore, a, now).limited

\* C13, on states: the count of every address is the number of its POSTs
\* that passed the check in the record's window, whatever became of them;
\* a passing POST is counted before its body is parsed.
CountIsPasses ==
    /\ DOMAIN passed = DOMAIN rateLimitStore
    /\ \A a \in DOMAIN rateLimitStore :
          /\ passed[a].windowStart = rateLimitStore[a].windowStart
          /\ passed[a].n = rateLimitStore[a].count
    /\ (PostArrived /\ ~last.limited) =>
          /\ ~last.parsed
          /\ last.pc = "parse"
          /\ rateLimitStore[last.ip].count =
                IF HadRecord /\ Age <= RATE_LIMIT_WINDOW_MS
                THEN last.before[last.ip].count + 1
                ELSE 1

\* C13, on steps: no step lowers a count within a window, and the steps
\* after the check (validation answering 400, parse or insert failing with
\* 500, the insert succeeding) leave the store as it is.
CountNeverRefunded ==
    /\ \A a \in DOMAIN rateLimitStore :
          /\ a \in DOMAIN rateLimitStore'
          /\ rateLimitStore'[a].windowStart = rateLimitStore[a].windowStart =>
                rateLimitStore'[a].count >= rateLimitStore[a].count
    /\ last'.step \in {"parsed", "settled"} => rateLimitStore' = rateLimitStore

\* C13: the rate-limit count of an address equals the number of its POSTs
\* that passed the rate-limit check in the current window, not the number
\* persisted: it is incremented before the parse and never decremented, so
\* POSTs answered 400 or 500 each consume one of the 5 slots.
C13_CountIsPassesNotStored ==
    []CountIsPasses /\ [][CountNeverRefunded]_vars

\* After five POSTs that passed the check and stored nothing, a valid POST
\* of the same address in the same window was answered 429.
C13_Witness ==
    /\ PostArrived
    /\ last.resp.status = 429
    /\ last.body \in ValidIds
    /\ Age <= RATE_LIMIT_WINDOW_MS
    /\ rateLimitStore[last.ip].count = MAX_SUBMISSIONS_PER_WINDOW
    /\ passed[last.ip].n = MAX_SUBMISSIONS_PER_WINDOW
    /\ db = << >>

\* ------------------------------------------------------------------------
\* Properties under concurrent invocations
\* ------------------------------------------------------------------------
\* Invocations of address a suspended at an await.
Suspended(a) == {s \in Slots : inflight[s].pc # "idle" /\ inflight[s].ip = a}

\* C14, on states: every record has a count from 1 to 5, and at most 5
\* POSTs of an address, finished or still suspended, passed the check in a
\* window.
RecordsWithinLimit ==
    /\ \A a \in DOMAIN rateLimitStore :
          /\ rateLimitStore[a].count >= 1
          /\ rateLimitStore[a].count <= MAX_SUBMISSIONS_PER_WINDOW
          /\ a \in DOMAIN passed
          /\ passed[a].n = rateLimitStore[a].count
          /\ Cardinality(Suspended(a)) <= rateLimitStore[a].count
    /\ \A a \in DOMAIN passed : passed[a].n <= MAX_SUBMISSIONS_PER_WINDOW

\* C14, on steps: an arriving POST checks and counts against the store as
\* it is at that moment, whatever is suspended, and changes the record of
\* its own address only; the steps that resume a suspended invocation do
\* not touch the store.
CheckAndIncrementAtomic ==
    /\ (last'.step = "arrive" /\ last'.method = "POST") =>
          /\ last'.before = rateLimitStore
          /\ last'.after = rateLimitStore'
          /\ \A a \in DOMAIN rateLimitStore \ {last'.ip} :
                a \in DOMAIN rateLimitStore' /\ rateLimitStore'[a] = rateLimitStore[a]
          /\ DOMAIN rateLimitStore' = DOMAIN rateLimitStore \cup {last'.ip}
          /\ IF last'.ip \notin DOMAIN rateLimitStore
             THEN ~last'.limited /\ rateLimitStore'[last'.ip].count = 1
             ELSE IF rateLimitStore[last'.ip].count >= MAX_SUBMISSIONS_PER_WINDOW
             THEN last'.limited /\ rateLimitStore'[last'.ip] = rateLimitStore[last'.ip]
             ELSE ~last'.limited
                  /\ rateLimitStore'[last'.ip].count = rateLimitStore[last'.ip].count + 1
    /\ last'.step \in {"parsed", "settled"} => rateLimitStore' = rateLimitStore

\* C14: under every interleaving of invocations at the awaited parse and
\* the awaited insert, the check-and-increment of a request is one atomic
\* step: every record has 1 <= count <= 5, no more than 5 concurrent POSTs
\* of an address pass in one window, and a request never changes the
\* record of another address.
C14_AtomicCheckAndIncrement ==
    []RecordsWithinLimit /\ [][CheckAndIncrementAtomic]_vars

\* A POST was answered 429 while two passed POSTs of its address were
\* still suspended and another address had a record of its own.
C14_Witness ==
    /\ PostArrived
    /\ last.limited
    /\ Cardinality(Suspended(last.ip)) = 2
    /\ rateLimitStore[last.ip].count = MAX_SUBMISSIONS_PER_WINDOW
    /\ \E a \in DOMAIN rateLimitStore : a # last.ip /\ rateLimitStore[a].count < MAX_SUBMISSIONS_PER_WINDOW

====
